---- MODULE Spec2Model ----
(***************************************************************************)
(* build_resource_pack.py: the server.properties patcher                   *)
(* (update_server_properties) and the pack identity (generate_pack_uuid).  *)
(*                                                                         *)
(* A Python str is modelled as a sequence of atoms.  An atom is either one *)
(* of the characters the code looks at (" ", "\n", "#", "=", ":", "\")     *)
(* or a run of characters that holds none of them ("resource-pack",        *)
(* "25565").  Every string of the model has one atomisation only, so str   *)
(* equality is sequence equality.                                          *)
(***************************************************************************)
EXTENDS Integers, Sequences, FiniteSets, TLC

\* ------------------------------------------------------------------ bounds
MaxLines == 1       \* lines of the initial properties file, Spec
MaxCalls == 2       \* calls of update_server_properties in one behaviour of Spec
MaxPatchLines == 3  \* lines of the initial properties file, SpecOneCall
MaxMainLines == 0   \* lines of the enumerated initial properties files, SpecMain

\* ------------------------------------------------------------- characters
NL == "\n"
SP == " "
HASH == "#"
EQ == "="
COLON == ":"
BACKSLASH == "\\"

\* str.strip() with no argument removes whitespace; the documents of the
\* model hold two whitespace characters.
Whitespace == {SP, NL}

\* ------------------------------------------------------ str methods used
RECURSIVE lstrip(_)
lstrip(s) ==
    IF s # <<>> /\ Head(s) \in Whitespace THEN lstrip(Tail(s)) ELSE s

RECURSIVE rstrip(_)
rstrip(s) ==
    IF s # <<>> /\ s[Len(s)] \in Whitespace
    THEN rstrip(SubSeq(s, 1, Len(s) - 1))
    ELSE s

strip(s) == rstrip(lstrip(s))

startswith(s, c) == s # <<>> /\ Head(s) = c

contains(s, c) == \E i \in 1..Len(s) : s[i] = c

\* index of the first c in s (s contains c)
find(s, c) == CHOOSE i \in 1..Len(s) : s[i] = c /\ \A j \in 1..(i - 1) : s[j] # c

\* s.split(c, 1)[0]: all of s when c does not occur
split_first(s, c) == IF contains(s, c) THEN SubSeq(s, 1, find(s, c) - 1) ELSE s

\* s.replace(c, r): every occurrence of the character c replaced by the string r
RECURSIVE replace(_, _, _)
replace(s, c, r) ==
    IF s = <<>> THEN <<>>
    ELSE (IF Head(s) = c THEN r ELSE <<Head(s)>>) \o replace(Tail(s), c, r)

\* ''.join(ls)
RECURSIVE join(_)
join(ls) == IF ls = <<>> THEN <<>> ELSE Head(ls) \o join(Tail(ls))

\* f.readlines(): the text cut after every "\n"; a last line without
\* terminator is returned as it is
RECURSIVE readlines(_)
readlines(data) ==
    IF data = <<>> THEN <<>>
    ELSE IF contains(data, NL)
         THEN <<SubSeq(data, 1, find(data, NL))>>
              \o readlines(SubSeq(data, find(data, NL) + 1, Len(data)))
         ELSE <<data>>

\* ------------------------------------------------------------ pack identity
NAMESPACE_DNS == "6ba7b810-9dad-11d1-80b4-00c04fd430c8"

\* str(uuid.uuid5(namespace, name)): the SHA-1 digest of namespace + name as a
\* symbolic term, one-to-one in (namespace, name)
uuid5(namespace, name) == <<"uuid5", namespace>> \o name

generate_pack_uuid(hash_str) ==
    uuid5(NAMESPACE_DNS, <<"bitterharvest-pack-">> \o hash_str)

\* ------------------------------------------------------------ managed keys
KEY_RESOURCE_PACK == <<"resource-pack">>
KEY_RESOURCE_PACK_SHA1 == <<"resource-pack", "-sha1">>
KEY_RESOURCE_PACK_ID == <<"resource-pack", "-id">>

escape_url_first_only(url) ==
    IF contains(url, COLON)
    THEN SubSeq(url, 1, find(url, COLON) - 1) \o <<BACKSLASH, COLON>>
         \o SubSeq(url, find(url, COLON) + 1, Len(url))
    ELSE url

\* url.replace(':', '\\:')
escape_url(url) == replace(url, COLON, <<BACKSLASH, COLON>>)

\* the dict resource_pack_keys, in insertion order: <<key, value>> pairs
resource_pack_keys(escaped_url, hash_str, pack_uuid) ==
    << <<KEY_RESOURCE_PACK, escaped_url>>,
       <<KEY_RESOURCE_PACK_SHA1, hash_str>>,
       <<KEY_RESOURCE_PACK_ID, pack_uuid>> >>

\* key in d
has_key(d, key) == \E i \in 1..Len(d) : d[i][1] = key

\* d[key]
value_of(d, key) == d[CHOOSE i \in 1..Len(d) : d[i][1] = key][2]

\* f"{key}={value}\n"
format_line(key, value) == key \o <<EQ>> \o value \o <<NL>>

\* ---------------------------------------------------------- the patch pass
\* One iteration of the loop over lines: the line appended to new_lines and
\* the keys added to updated_keys.
patch_line_normalises(line, keys) ==
    LET stripped == strip(line) IN
    IF stripped = <<>> \/ startswith(stripped, HASH)
    THEN [out |-> line, upd |-> {}]
    ELSE IF contains(stripped, EQ)
         THEN LET key == strip(split_first(stripped, EQ)) IN
              IF has_key(keys, key)
              THEN [out |-> format_line(key, value_of(keys, key)), upd |-> {key}]
              ELSE [out |-> stripped \o <<NL>>, upd |-> {}]
         ELSE [out |-> stripped \o <<NL>>, upd |-> {}]

patch_line_keeps_value(line, keys) ==
    LET stripped == strip(line) IN
    IF stripped = <<>> \/ startswith(stripped, HASH)
    THEN [out |-> line, upd |-> {}]
    ELSE IF contains(stripped, EQ)
         THEN LET key == strip(split_first(stripped, EQ)) IN
              IF has_key(keys, key)
              THEN [out |-> line, upd |-> {key}]
              ELSE [out |-> line, upd |-> {}]
         ELSE [out |-> line, upd |-> {}]

is_prefix(p, s) == Len(p) <= Len(s) /\ SubSeq(s, 1, Len(p)) = p

patch_line_prefix_match(line, keys) ==
    LET stripped == strip(line) IN
    IF stripped = <<>> \/ startswith(stripped, HASH)
    THEN [out |-> line, upd |-> {}]
    ELSE IF contains(stripped, EQ)
         THEN LET key == strip(split_first(stripped, EQ)) IN
              IF \E i \in 1..Len(keys) : is_prefix(keys[i][1], key)
              THEN LET m == CHOOSE i \in 1..Len(keys) :
                                /\ is_prefix(keys[i][1], key)
                                /\ \A j \in 1..(i - 1) : ~is_prefix(keys[j][1], key)
                   IN [out |-> format_line(keys[m][1], keys[m][2]),
                       upd |-> {keys[m][1]}]
              ELSE [out |-> line, upd |-> {}]
         ELSE [out |-> line, upd |-> {}]

patch_line(line, keys) ==
    LET stripped == strip(line) IN
    IF stripped = <<>> \/ startswith(stripped, HASH)
    THEN [out |-> line, upd |-> {}]
    ELSE IF contains(stripped, EQ)
         THEN LET key == strip(split_first(stripped, EQ)) IN
              IF has_key(keys, key)
              THEN [out |-> format_line(key, value_of(keys, key)), upd |-> {key}]
              ELSE [out |-> line, upd |-> {}]
         ELSE [out |-> line, upd |-> {}]

\* for line in lines: ...  -> [new_lines, updated_keys]
RECURSIVE patch_loop(_, _)
patch_loop(ls, keys) ==
    IF ls = <<>> THEN [new_lines |-> <<>>, updated_keys |-> {}]
    ELSE LET first == patch_line(Head(ls), keys)
             rest == patch_loop(Tail(ls), keys)
         IN [new_lines |-> <<first.out>> \o rest.new_lines,
             updated_keys |-> first.upd \cup rest.updated_keys]

\* for key, value in resource_pack_keys.items(): if key not in updated_keys: append
RECURSIVE missing_lines(_, _)
missing_lines(keys, updated) ==
    IF keys = <<>> THEN <<>>
    ELSE (IF Head(keys)[1] \notin updated
          THEN <<format_line(Head(keys)[1], Head(keys)[2])>>
          ELSE <<>>)
         \o missing_lines(Tail(keys), updated)

reverse(s) == [i \in 1..Len(s) |-> s[Len(s) + 1 - i]]

append_missing_always(ls, updated, keys) == ls \o missing_lines(keys, {})

append_missing_reversed(ls, updated, keys) ==
    ls \o missing_lines(reverse(keys), updated)

append_missing(ls, updated, keys) == ls \o missing_lines(keys, updated)

\* lines 668-696 as a function of the lines read and the managed mapping
patch_properties(ls, keys) ==
    LET pass == patch_loop(ls, keys)
    IN append_missing(pass.new_lines, pass.updated_keys, keys)

\* ------------------------------------------------------------------ inputs
\* The lines the initial documents are made of, without terminator.
Vocabulary ==
    { <<>>,
      <<HASH, "resource-pack", EQ, "old">>,
      <<"server-port", EQ, "25565">>,
      <<"resource-pack", EQ, "old">>,
      <<SP, "resource-pack", "-sha1", SP, EQ, "old", EQ, "x">>,
      <<"resource-pack", "-id", EQ, "0000">>,
      <<"garbage">>,
      <<"require-", "resource-pack", EQ, "true">> }

DocLines(max) == UNION { [1..n -> Vocabulary] : n \in 0..max }

\* the text of a file of these lines; the last line may lack its terminator
Document(ls, terminated) ==
    join([i \in 1..Len(ls) |->
            IF i < Len(ls) \/ terminated THEN ls[i] \o <<NL>> ELSE ls[i]])

Documents(max) == { Document(ls, t) : ls \in DocLines(max), t \in BOOLEAN }

Urls == { <<"https", COLON, "//a/pack.zip">>,
          <<"http", COLON, "//b", COLON, "8080/pack.zip">> }

\* hexdigest() values
Hashes == { <<"3f2a">>, <<"9c1e">> }

Absent == [exists |-> FALSE, data |-> <<>>]
File(data) == [exists |-> TRUE, data |-> data]

\* ------------------------------------------------------------------- state
VARIABLES
    disk,         \* the file at properties_path: [exists, data]
    pc,           \* position of the call in update_server_properties
    url,          \* argument url
    hash_str,     \* argument hash_str
    lines,        \* local lines
    pack_uuid,    \* local pack_uuid
    escaped_url,  \* local escaped_url
    new_lines,    \* local new_lines
    written,      \* number of lines of new_lines handed to the file so far
    result,       \* return value of the call: "none", "True", "False"
    orig,         \* the file as it was when the call started
    ops,          \* the steps the call has performed, in order
    calls,        \* number of calls that have returned
    history,      \* the calls that returned True, oldest first
    mpc,          \* position of main; "none": the function is called directly
    argv,         \* the command line as given
    args,         \* the argparse namespace, as the auto mode changes it
    pack_config,  \* load_pack_config(): the saved automation settings
    sha1_hash,    \* main's sha1_hash, <<>> before the archive is built
    main_url,     \* main's url; <<>> stands for None and for ''
    plugin_cfg,   \* the plugin config.yml at cfg_path
    called        \* the functions main has called after the build, in order

vars == <<disk, pc, url, hash_str, lines, pack_uuid, escaped_url, new_lines,
          written, result, orig, ops, calls, history,
          mpc, argv, args, pack_config, sha1_hash, main_url, plugin_cfg, called>>

mainVars == <<mpc, argv, args, pack_config, sha1_hash, main_url, plugin_cfg, called>>

locals == <<lines, pack_uuid, escaped_url, new_lines, written>>

\* before the first call: the file is missing or holds one of the documents
InitWith(documents) ==
    /\ disk \in {Absent} \cup { File(d) : d \in documents }
    /\ pc = "idle"
    /\ url = <<>>
    /\ hash_str = <<>>
    /\ lines = <<>>
    /\ pack_uuid = <<>>
    /\ escaped_url = <<>>
    /\ new_lines = <<>>
    /\ written = 0
    /\ result = "none"
    /\ orig = disk
    /\ ops = <<>>
    /\ calls = 0
    /\ history = <<>>

\* the plugin config.yml: absent, as it was ("original"), rewritten with
\* resourcepack.url and resourcepack.sha1 ("updated"), or cut off ("truncated")
PluginConfig(state, u, h) == [state |-> state, url |-> u, sha1 |-> h]
NoPluginConfig == PluginConfig("absent", <<>>, <<>>)
OriginalPluginConfig == PluginConfig("original", <<>>, <<>>)

NoArgs == [publish |-> FALSE, mcpacks |-> FALSE, update_config |-> FALSE,
           auto |-> FALSE, setup |-> FALSE, url |-> <<>>]

\* update_server_properties called on its own, not from main
NoMain ==
    /\ mpc = "none"
    /\ argv = NoArgs
    /\ args = NoArgs
    /\ pack_config = [auto_publish |-> FALSE, auto_update_config |-> FALSE]
    /\ sha1_hash = <<>>
    /\ main_url = <<>>
    /\ plugin_cfg = NoPluginConfig
    /\ called = <<>>

Init == InitWith(Documents(MaxLines)) /\ NoMain

InitOneCall == InitWith(Documents(MaxPatchLines)) /\ NoMain

\* the arguments of the call: any, or the ones main passes at line 908
Passed(u, h) ==
    \/ mpc = "none"
    \/ mpc = "in_props" /\ u = main_url /\ h = sha1_hash

\* update_server_properties(properties_path, url, hash_str) is entered
Call ==
    /\ pc = "idle"
    /\ calls < MaxCalls
    /\ \E u \in Urls, h \in Hashes :
          /\ Passed(u, h)
          /\ url' = u
          /\ hash_str' = h
    /\ pc' = "exists"
    /\ orig' = disk
    /\ ops' = <<>>
    /\ result' = "none"
    /\ lines' = <<>>
    /\ pack_uuid' = <<>>
    /\ escaped_url' = <<>>
    /\ new_lines' = <<>>
    /\ written' = 0
    /\ UNCHANGED <<disk, calls, history, mainVars>>

CheckExistsCreates ==
    /\ pc = "exists"
    /\ ops' = Append(ops, "exists")
    /\ pc' = "read"
    /\ disk' = IF disk.exists THEN disk ELSE File(<<>>)
    /\ UNCHANGED <<url, hash_str, locals, orig, calls, history, result, mainVars>>

\* if not properties_path.exists(): return False
CheckExists ==
    /\ pc = "exists"
    /\ ops' = Append(ops, "exists")
    /\ IF disk.exists
       THEN pc' = "read" /\ UNCHANGED result
       ELSE pc' = "returned" /\ result' = "False"
    /\ UNCHANGED <<disk, url, hash_str, locals, orig, calls, history, mainVars>>

ReadLinesTruncates ==
    /\ pc = "read"
    /\ disk.exists
    /\ lines' = readlines(disk.data)
    /\ disk' = File(<<>>)
    /\ ops' = Append(ops, "read")
    /\ pc' = "uuid"
    /\ UNCHANGED <<url, hash_str, pack_uuid, escaped_url, new_lines,
                   written, result, orig, calls, history, mainVars>>

\* with open(properties_path, 'r') as f: lines = f.readlines()
ReadLines ==
    /\ pc = "read"
    /\ disk.exists
    /\ lines' = readlines(disk.data)
    /\ ops' = Append(ops, "read")
    /\ pc' = "uuid"
    /\ UNCHANGED <<disk, url, hash_str, pack_uuid, escaped_url, new_lines,
                   written, result, orig, calls, history, mainVars>>

\* open(..., 'r') or readlines() raises (OSError, UnicodeDecodeError):
\* except Exception: return False
ReadFails ==
    /\ pc = "read"
    /\ ops' = Append(ops, "read-failed")
    /\ pc' = "returned"
    /\ result' = "False"
    /\ UNCHANGED <<disk, url, hash_str, locals, orig, calls, history, mainVars>>

DeriveUuidFromUrl ==
    /\ pc = "uuid"
    /\ pack_uuid' = generate_pack_uuid(url)
    /\ ops' = Append(ops, "uuid")
    /\ pc' = "escape"
    /\ UNCHANGED <<disk, url, hash_str, lines, escaped_url, new_lines,
                   written, result, orig, calls, history, mainVars>>

\* pack_uuid = generate_pack_uuid(hash_str)
DeriveUuid ==
    /\ pc = "uuid"
    /\ pack_uuid' = generate_pack_uuid(hash_str)
    /\ ops' = Append(ops, "uuid")
    /\ pc' = "escape"
    /\ UNCHANGED <<disk, url, hash_str, lines, escaped_url, new_lines,
                   written, result, orig, calls, history, mainVars>>

\* escaped_url = url.replace(':', '\\:')
EscapeUrl ==
    /\ pc = "escape"
    /\ escaped_url' = escape_url(url)
    /\ ops' = Append(ops, "escape")
    /\ pc' = "patch"
    /\ UNCHANGED <<disk, url, hash_str, lines, pack_uuid, new_lines,
                   written, result, orig, calls, history, mainVars>>

\* the loop over lines and the loop that appends the missing keys
Patch ==
    /\ pc = "patch"
    /\ new_lines' = patch_properties(
                        lines, resource_pack_keys(escaped_url, hash_str, pack_uuid))
    /\ ops' = Append(ops, "patch")
    /\ pc' = "open_w"
    /\ UNCHANGED <<disk, url, hash_str, lines, pack_uuid, escaped_url,
                   written, result, orig, calls, history, mainVars>>

\* open(properties_path, 'w'): the file is truncated to length 0
OpenWrite ==
    /\ pc = "open_w"
    /\ disk' = File(<<>>)
    /\ written' = 0
    /\ ops' = Append(ops, "open_w")
    /\ pc' = "write"
    /\ UNCHANGED <<url, hash_str, lines, pack_uuid, escaped_url, new_lines,
                   result, orig, calls, history, mainVars>>

\* open(properties_path, 'w') raises (PermissionError): the file is untouched
OpenWriteFails ==
    /\ pc = "open_w"
    /\ ops' = Append(ops, "open_w-failed")
    /\ pc' = "returned"
    /\ result' = "False"
    /\ UNCHANGED <<disk, url, hash_str, locals, orig, calls, history, mainVars>>

\* f.writelines(new_lines): the next line reaches the file
WriteLine ==
    /\ pc = "write"
    /\ written < Len(new_lines)
    /\ disk' = File(disk.data \o new_lines[written + 1])
    /\ written' = written + 1
    /\ UNCHANGED <<pc, url, hash_str, lines, pack_uuid, escaped_url, new_lines,
                   result, orig, ops, calls, history, mainVars>>

\* writelines() or the close of the with block raises (OSError: disk full,
\* UnicodeEncodeError): the lines written so far stay in the truncated file;
\* except Exception: return False
WriteFails ==
    /\ pc = "write"
    /\ ops' = Append(ops, "write-failed")
    /\ pc' = "returned"
    /\ result' = "False"
    /\ UNCHANGED <<disk, url, hash_str, locals, orig, calls, history, mainVars>>

\* the with block is left, all lines written: return True
CloseWrite ==
    /\ pc = "write"
    /\ written = Len(new_lines)
    /\ ops' = Append(ops, "write")
    /\ pc' = "returned"
    /\ result' = "True"
    /\ UNCHANGED <<disk, url, hash_str, locals, orig, calls, history, mainVars>>

\* the caller has the return value; the frame of the call is gone
Return ==
    /\ pc = "returned"
    /\ calls' = calls + 1
    /\ history' = IF result = "True"
                  THEN Append(history, [url |-> url, hash_str |-> hash_str,
                                        new_lines |-> new_lines])
                  ELSE history
    /\ pc' = "idle"
    /\ url' = <<>>
    /\ hash_str' = <<>>
    /\ lines' = <<>>
    /\ pack_uuid' = <<>>
    /\ escaped_url' = <<>>
    /\ new_lines' = <<>>
    /\ written' = 0
    /\ result' = "none"
    /\ orig' = disk
    /\ ops' = <<>>
    /\ mpc' = IF mpc = "in_props" THEN "plugin" ELSE mpc
    /\ UNCHANGED <<disk, argv, args, pack_config, sha1_hash, main_url,
                   plugin_cfg, called>>

\* update_server_properties from its entry to its return value
NextOneCall ==
    \/ Call
    \/ CheckExists
    \/ ReadLines
    \/ ReadFails
    \/ DeriveUuid
    \/ EscapeUrl
    \/ Patch
    \/ OpenWrite
    \/ OpenWriteFails
    \/ WriteLine
    \/ WriteFails
    \/ CloseWrite

Next ==
    \/ NextOneCall
    \/ Return

\* calls of update_server_properties one after the other on the same file
Spec == Init /\ [][Next]_vars

\* one call, on larger documents
SpecOneCall == InitOneCall /\ [][NextOneCall]_vars

\* ------------------------------------------------------------------- main
\* parser.parse_args(): every combination of the flags main's update logic
\* reads; url <<>> is no --url (or --url '')
CommandLines ==
    [publish : BOOLEAN, mcpacks : BOOLEAN, update_config : BOOLEAN,
     auto : BOOLEAN, setup : BOOLEAN, url : {<<>>} \cup Urls]

\* a server.properties as servers have it: a comment, a blank line, a
\* setting and the pack location
TypicalDocument ==
    Document(<< <<HASH, SP, "comment">>, <<>>, <<"server-port", EQ, "25565">>,
                <<"resource-pack", EQ, "old">> >>, TRUE)

InitMain ==
    /\ InitWith(Documents(MaxMainLines) \cup {TypicalDocument})
    /\ mpc = "start"
    /\ argv \in CommandLines
    /\ args = argv
    /\ pack_config \in [auto_publish : BOOLEAN, auto_update_config : BOOLEAN]
    /\ sha1_hash = <<>>
    /\ main_url = <<>>
    /\ plugin_cfg \in {NoPluginConfig, OriginalPluginConfig}
    /\ called = <<>>

updateVars == <<disk, pc, url, hash_str, lines, pack_uuid, escaped_url,
                new_lines, written, result, orig, ops, calls, history>>

\* if args.setup: run_setup_wizard(); return
MainSetup ==
    /\ mpc = "start"
    /\ args.setup
    /\ mpc' = "done"
    /\ UNCHANGED <<updateVars, argv, args, pack_config, sha1_hash, main_url,
                   plugin_cfg, called>>

MainAutoModeSavedSettings ==
    /\ mpc = "start"
    /\ ~args.setup
    /\ args' = [args EXCEPT
                  !.publish = args.publish \/ args.auto \/ pack_config.auto_publish,
                  !.update_config = args.update_config \/ args.auto
                                    \/ pack_config.auto_update_config]
    /\ mpc' = "build"
    /\ UNCHANGED <<updateVars, argv, pack_config, sha1_hash, main_url,
                   plugin_cfg, called>>

\* pack_config = load_pack_config(); if args.auto: args.publish = True;
\* args.update_config = True; the saved settings are read under --auto only
MainAutoMode ==
    /\ mpc = "start"
    /\ ~args.setup
    /\ args' = IF args.auto
               THEN [args EXCEPT !.publish = TRUE, !.update_config = TRUE]
               ELSE args
    /\ mpc' = "build"
    /\ UNCHANGED <<updateVars, argv, pack_config, sha1_hash, main_url,
                   plugin_cfg, called>>

\* steps 1 to 5 and generate_java_constants: the archive is built and hashed
MainBuild ==
    /\ mpc = "build"
    /\ sha1_hash' \in Hashes
    /\ mpc' = "publish"
    /\ UNCHANGED <<updateVars, argv, args, pack_config, main_url, plugin_cfg,
                   called>>

\* a build step raises: the finally block removes temp_dir, main ends
MainBuildRaises ==
    /\ mpc = "build"
    /\ mpc' = "raised"
    /\ UNCHANGED <<updateVars, argv, args, pack_config, sha1_hash, main_url,
                   plugin_cfg, called>>

\* url = args.url, and no upload: a url was given or --publish was not
MainNoUpload ==
    /\ mpc = "publish"
    /\ args.url # <<>> \/ ~args.publish
    /\ main_url' = args.url
    /\ mpc' = "props"
    /\ UNCHANGED <<updateVars, argv, args, pack_config, sha1_hash, plugin_cfg,
                   called>>

\* url = upload_to_mcpacks(args.output): the url typed in, or None
MainUploadToMcpacks ==
    /\ mpc = "publish"
    /\ args.url = <<>> /\ args.publish /\ args.mcpacks
    /\ main_url' \in {<<>>} \cup Urls
    /\ called' = Append(called, "upload_to_mcpacks")
    /\ mpc' = "props"
    /\ UNCHANGED <<updateVars, argv, args, pack_config, sha1_hash, plugin_cfg>>

\* input() in upload_to_mcpacks raises (EOFError): main ends with it
MainUploadToMcpacksRaises ==
    /\ mpc = "publish"
    /\ args.url = <<>> /\ args.publish /\ args.mcpacks
    /\ called' = Append(called, "upload_to_mcpacks")
    /\ mpc' = "raised"
    /\ UNCHANGED <<updateVars, argv, args, pack_config, sha1_hash, main_url,
                   plugin_cfg>>

\* url = upload_to_github_release(args.output, sha1_hash): the asset url, None
\* (no repo, gh failed, exception) or '' (gh printed no url and no repo name)
MainUploadToGithubRelease ==
    /\ mpc = "publish"
    /\ args.url = <<>> /\ args.publish /\ ~args.mcpacks
    /\ main_url' \in {<<>>} \cup Urls
    /\ called' = Append(called, "upload_to_github_release")
    /\ mpc' = "props"
    /\ UNCHANGED <<updateVars, argv, args, pack_config, sha1_hash, plugin_cfg>>

MainServerPropertiesUpdateConfigOnly ==
    /\ mpc = "props"
    /\ IF main_url # <<>> /\ args.update_config /\ disk.exists
       THEN /\ mpc' = "in_props"
            /\ called' = Append(called, "update_server_properties")
       ELSE /\ mpc' = "plugin"
            /\ UNCHANGED called
    /\ UNCHANGED <<updateVars, argv, args, pack_config, sha1_hash, main_url,
                   plugin_cfg>>

\* if url: if args.publish or args.update_config: if props_path and
\* props_path.exists(): update_server_properties(props_path, url, sha1_hash)
MainServerProperties ==
    /\ mpc = "props"
    /\ IF main_url # <<>> /\ (args.publish \/ args.update_config) /\ disk.exists
       THEN /\ mpc' = "in_props"
            /\ called' = Append(called, "update_server_properties")
       ELSE /\ mpc' = "plugin"
            /\ UNCHANGED called
    /\ UNCHANGED <<updateVars, argv, args, pack_config, sha1_hash, main_url,
                   plugin_cfg>>

MainPluginConfigWithoutUrl ==
    /\ mpc = "plugin"
    /\ IF args.update_config /\ plugin_cfg.state # "absent"
       THEN /\ mpc' = "in_plugin"
            /\ called' = Append(called, "update_plugin_config")
       ELSE /\ mpc' = "summary"
            /\ UNCHANGED called
    /\ UNCHANGED <<updateVars, argv, args, pack_config, sha1_hash, main_url,
                   plugin_cfg>>

\* if url: if args.update_config: if cfg_path and cfg_path.exists():
\* update_plugin_config(cfg_path, url, sha1_hash)
MainPluginConfig ==
    /\ mpc = "plugin"
    /\ IF main_url # <<>> /\ args.update_config /\ plugin_cfg.state # "absent"
       THEN /\ mpc' = "in_plugin"
            /\ called' = Append(called, "update_plugin_config")
       ELSE /\ mpc' = "summary"
            /\ UNCHANGED called
    /\ UNCHANGED <<updateVars, argv, args, pack_config, sha1_hash, main_url,
                   plugin_cfg>>

\* update_plugin_config: config.yml is loaded, changed and dumped; True
UpdatePluginConfig ==
    /\ mpc = "in_plugin"
    /\ plugin_cfg' = PluginConfig("updated", main_url, sha1_hash)
    /\ mpc' = "summary"
    /\ UNCHANGED <<updateVars, argv, args, pack_config, sha1_hash, main_url,
                   called>>

\* update_plugin_config returns False before it writes: no PyYAML, or the
\* load raises
UpdatePluginConfigNotWritten ==
    /\ mpc = "in_plugin"
    /\ mpc' = "summary"
    /\ UNCHANGED <<updateVars, argv, args, pack_config, sha1_hash, main_url,
                   plugin_cfg, called>>

\* yaml.dump raises after open(config_path, 'w'): False, the file is cut off
UpdatePluginConfigWriteFails ==
    /\ mpc = "in_plugin"
    /\ plugin_cfg' = PluginConfig("truncated", <<>>, <<>>)
    /\ mpc' = "summary"
    /\ UNCHANGED <<updateVars, argv, args, pack_config, sha1_hash, main_url,
                   called>>

\* the summary is printed, the finally block removes temp_dir
MainSummary ==
    /\ mpc = "summary"
    /\ mpc' = "done"
    /\ UNCHANGED <<updateVars, argv, args, pack_config, sha1_hash, main_url,
                   plugin_cfg, called>>

NextMain ==
    \/ MainSetup
    \/ MainAutoMode
    \/ MainBuild
    \/ MainBuildRaises
    \/ MainNoUpload
    \/ MainUploadToMcpacks
    \/ MainUploadToMcpacksRaises
    \/ MainUploadToGithubRelease
    \/ MainServerProperties
    \/ NextOneCall
    \/ Return
    \/ MainPluginConfig
    \/ UpdatePluginConfig
    \/ UpdatePluginConfigNotWritten
    \/ UpdatePluginConfigWriteFails
    \/ MainSummary

\* one run of main
SpecMain == InitMain /\ [][NextMain]_vars

\* ====================================================== checked properties
ManagedKeys == {KEY_RESOURCE_PACK, KEY_RESOURCE_PACK_SHA1, KEY_RESOURCE_PACK_ID}

KeyOrder == <<KEY_RESOURCE_PACK, KEY_RESOURCE_PACK_SHA1, KEY_RESOURCE_PACK_ID>>

IsBlank(line) == strip(line) = <<>>
IsComment(line) == startswith(strip(line), HASH)

\* the text before the first '=' of the line, surrounding whitespace trimmed
LineKey(line) == strip(split_first(line, EQ))

\* the line is a key=value line of a managed key
IsManagedLine(line) ==
    /\ ~IsBlank(line)
    /\ ~IsComment(line)
    /\ contains(line, EQ)
    /\ LineKey(line) \in ManagedKeys

\* blank, comment, no '=', or a key that is not managed
IsUnmanagedLine(line) == ~IsManagedLine(line)

HasKey(line, key) == IsManagedLine(line) /\ LineKey(line) = key

\* number of lines of ls that are key=value lines of the key
Count(ls, key) == Cardinality({i \in 1..Len(ls) : HasKey(ls[i], key)})

\* the text after the first '=' of the line, without the line terminator
LineValue(line) ==
    LET last == IF line[Len(line)] = NL THEN Len(line) - 1 ELSE Len(line)
    IN SubSeq(line, find(line, EQ) + 1, last)

\* the values the lines of ls give the key
Values(ls, key) == {LineValue(ls[i]) : i \in {j \in 1..Len(ls) : HasKey(ls[j], key)}}

\* the value the call maps the key to
ManagedValue(key) ==
    IF key = KEY_RESOURCE_PACK THEN escaped_url
    ELSE IF key = KEY_RESOURCE_PACK_SHA1 THEN hash_str
    ELSE pack_uuid

ManagedLine(key) == key \o <<EQ>> \o ManagedValue(key) \o <<NL>>

Did(op) == \E i \in 1..Len(ops) : ops[i] = op

\* the patch pass of the current call has just run: lines is its input,
\* new_lines its output
PatchDone == pc = "open_w"

Max(a, b) == IF a >= b THEN a ELSE b

\* ------------------------------------------------------------------- C1
\* C1 Preservation: the lines of the input that are blank, comments, without
\* '=' or of an unmanaged key are, in the output of the patch pass, the same
\* lines in the same order: none changed, dropped, duplicated or rejected, and
\* the pass adds no such line.
C1_Preservation ==
    PatchDone =>
        SelectSeq(new_lines, IsUnmanagedLine) = SelectSeq(lines, IsUnmanagedLine)

\* two different unmanaged lines, the second without terminator, around a
\* managed line that was rewritten
C1_Witness ==
    /\ PatchDone
    /\ Len(lines) >= 3
    /\ IsUnmanagedLine(lines[1])
    /\ \E i \in 2..(Len(lines) - 1) : IsManagedLine(lines[i]) /\ new_lines[i] # lines[i]
    /\ IsUnmanagedLine(lines[Len(lines)])
    /\ lines[Len(lines)] # lines[1]
    /\ lines[Len(lines)][Len(lines[Len(lines)])] # NL

\* ------------------------------------------------------------------- C2
\* C2 Completeness as claimed: in the output of the patch pass every managed
\* key is on exactly one line, and that line carries the mapped value.
C2_ExactlyOnce ==
    PatchDone =>
        \A key \in ManagedKeys :
            /\ Count(new_lines, key) = 1
            /\ \A i \in 1..Len(new_lines) :
                   HasKey(new_lines[i], key) => new_lines[i] = ManagedLine(key)

\* C2 Completeness as the code has it: in the line list the patch pass hands
\* to the write, every managed key is on at least one line: on one line when
\* the input held it at most once, and on as many lines as the input held it
\* otherwise (every occurrence is rewritten, none removed); each of these
\* lines is key=mapped value.
C2_Completeness ==
    PatchDone =>
        \A key \in ManagedKeys :
            /\ Count(new_lines, key) = Max(1, Count(lines, key))
            /\ \A i \in 1..Len(new_lines) :
                   HasKey(new_lines[i], key) => new_lines[i] = ManagedLine(key)

\* one managed key twice in the input, another one absent
C2_Witness ==
    /\ PatchDone
    /\ \E key \in ManagedKeys : Count(lines, key) = 2 /\ Count(new_lines, key) = 2
    /\ \E key \in ManagedKeys : Count(lines, key) = 0 /\ Count(new_lines, key) = 1

\* ------------------------------------------------------------------- C3
\* C3 Idempotence: the patch pass applied to its own output, with the same
\* managed mapping, gives that output again.
C3_Idempotence ==
    PatchDone =>
        patch_properties(new_lines,
                         resource_pack_keys(escaped_url, hash_str, pack_uuid))
            = new_lines

\* the first pass rewrote a line and appended another
C3_Witness ==
    /\ PatchDone
    /\ Len(new_lines) > Len(lines)
    /\ \E i \in 1..Len(lines) : new_lines[i] # lines[i]

\* ------------------------------------------------------------------- C4
\* the managed keys that are on no line of the input, in mapping order
AbsentKeys == SelectSeq(KeyOrder, LAMBDA key : Count(lines, key) = 0)

\* C4 Position and append order: line i of the output is line i of the input,
\* rewritten when it is a managed line; after the input's lines come the lines
\* of the absent managed keys in the order resource-pack, resource-pack-sha1,
\* resource-pack-id, and nothing else.
C4_PositionAndAppendOrder ==
    PatchDone =>
        /\ Len(new_lines) = Len(lines) + Len(AbsentKeys)
        /\ \A i \in 1..Len(lines) :
               new_lines[i] = IF IsManagedLine(lines[i])
                              THEN ManagedLine(LineKey(lines[i]))
                              ELSE lines[i]
        /\ \A j \in 1..Len(AbsentKeys) :
               new_lines[Len(lines) + j] = ManagedLine(AbsentKeys[j])

\* a managed line rewritten in front of another line, two keys appended
C4_Witness ==
    /\ PatchDone
    /\ Len(lines) >= 2
    /\ IsManagedLine(lines[1])
    /\ new_lines[1] # lines[1]
    /\ IsUnmanagedLine(lines[2])
    /\ Len(AbsentKeys) = 2

\* ------------------------------------------------------------------- C5
\* the document a call with these arguments is to leave in the file
PatchedFile ==
    File(join(patch_properties(
                  readlines(orig.data),
                  resource_pack_keys(escape_url(url), hash_str,
                                     generate_pack_uuid(hash_str)))))

\* C5 No partial-update state: during and after a call the file is the
\* complete original or the complete patched document, and after a call that
\* failed it is the original.
C5_NoPartialUpdate ==
    pc # "idle" =>
        /\ disk = orig \/ disk = PatchedFile
        /\ (pc = "returned" /\ result = "False") => disk = orig

\* ------------------------------------------------------------------- C6
BeforeWrite == <<"exists", "read", "uuid", "escape", "patch">>

\* C6 Write happens last: the file is opened for writing only after the read,
\* the identity, the escaping and the whole patch pass; until then, and after
\* a failure at any step before it, the file is the original.
C6_WriteLast ==
    /\ disk # orig => Len(ops) > Len(BeforeWrite)
                      /\ SubSeq(ops, 1, Len(BeforeWrite) + 1)
                             = Append(BeforeWrite, "open_w")
    /\ pc = "open_w" =>
           /\ ops = BeforeWrite
           /\ lines = readlines(orig.data)
           /\ pack_uuid # <<>>
           /\ Len(new_lines) >= Len(lines)
           /\ \A key \in ManagedKeys : Count(new_lines, key) >= 1

\* a call that failed when it opened the file for writing: the patched lines
\* differ from the file, which is the original
C6_Witness ==
    /\ pc = "returned"
    /\ result = "False"
    /\ ops = Append(BeforeWrite, "open_w-failed")
    /\ orig.data # <<>>
    /\ join(new_lines) # orig.data
    /\ disk = orig

\* ------------------------------------------------------------------- C7
\* C7 Missing input file: a call on a path that does not exist does nothing
\* but the existence test: no read, no identity, no patch pass, no write; no
\* file appears at the path; the call returns False.
C7_MissingFile ==
    (pc # "idle" /\ ~orig.exists) =>
        /\ disk = Absent
        /\ pc \in {"exists", "returned"}
        /\ ops \in {<<>>, <<"exists">>}
        /\ lines = <<>> /\ pack_uuid = <<>> /\ escaped_url = <<>> /\ new_lines = <<>>
        /\ pc = "returned" => result = "False"

C7_Witness ==
    /\ pc = "returned"
    /\ ~orig.exists
    /\ result = "False"
    /\ ~disk.exists

\* ------------------------------------------------------------------- C9
\* C9 Identity matches checksum: after a call that returned True the lines
\* written give resource-pack-sha1 the value hash_str and resource-pack-id the
\* value generate_pack_uuid(hash_str), and every earlier successful call with
\* the same hash_str wrote the same resource-pack-id, whatever its url.
C9_IdentityMatchesChecksum ==
    (pc = "returned" /\ result = "True") =>
        /\ disk = File(join(new_lines))
        /\ Values(new_lines, KEY_RESOURCE_PACK_SHA1) = {hash_str}
        /\ Values(new_lines, KEY_RESOURCE_PACK_ID) = {generate_pack_uuid(hash_str)}
        /\ \A n \in 1..Len(history) :
               history[n].hash_str = hash_str =>
                   Values(history[n].new_lines, KEY_RESOURCE_PACK_ID)
                       = Values(new_lines, KEY_RESOURCE_PACK_ID)

\* a second successful update with the same checksum and another url, on a
\* file whose first update replaced a foreign id
C9_Witness ==
    /\ pc = "returned"
    /\ result = "True"
    /\ Len(history) = 1
    /\ history[1].hash_str = hash_str
    /\ history[1].url # url
    /\ Values(lines, KEY_RESOURCE_PACK_ID) = {generate_pack_uuid(hash_str)}

\* ------------------------------------------------------------------- C10
Colons(u, i) == Cardinality({j \in 1..i : u[j] = COLON})

\* v is u with one backslash put in front of every ':' and nothing else changed
IsEscapeOf(v, u) ==
    /\ Len(v) = Len(u) + Colons(u, Len(u))
    /\ \A i \in 1..Len(u) :
           /\ v[i + Colons(u, i)] = u[i]
           /\ u[i] = COLON => v[i + Colons(u, i) - 1] = BACKSLASH

\* C10 Escaping: after a call that returned True the value written for
\* resource-pack is the url argument with one backslash in front of every
\* ':'; it is the value every earlier successful call with the same url
\* wrote, also when the file read already held it; the sha1 and id values are
\* written as they are, without backslash.
C10_Escaping ==
    (pc = "returned" /\ result = "True") =>
        /\ \E v \in Values(new_lines, KEY_RESOURCE_PACK) :
               /\ Values(new_lines, KEY_RESOURCE_PACK) = {v}
               /\ IsEscapeOf(v, url)
        /\ \A n \in 1..Len(history) :
               history[n].url = url =>
                   Values(history[n].new_lines, KEY_RESOURCE_PACK)
                       = Values(new_lines, KEY_RESOURCE_PACK)
        /\ \A key \in {KEY_RESOURCE_PACK_SHA1, KEY_RESOURCE_PACK_ID} :
               \A v \in Values(new_lines, key) :
                   /\ ~contains(v, BACKSLASH)
                   /\ v = IF key = KEY_RESOURCE_PACK_SHA1 THEN hash_str ELSE pack_uuid

\* the update run again with the same url, two colons in it, on the file that
\* holds the escaped value
C10_Witness ==
    /\ pc = "returned"
    /\ result = "True"
    /\ Len(history) = 1
    /\ history[1].url = url
    /\ Colons(url, Len(url)) = 2
    /\ \E v \in Values(lines, KEY_RESOURCE_PACK) :
           IsEscapeOf(v, url) /\ Colons(v, Len(v)) = 2

\* ------------------------------------------------------------ runs of main
Called(f) == \E i \in 1..Len(called) : called[i] = f

UploadCalled == Called("upload_to_mcpacks") \/ Called("upload_to_github_release")

BuildCompleted == sha1_hash # <<>>

MainFinished == mpc \in {"done", "raised"}

PublishRequested == argv.publish \/ argv.auto

\* ------------------------------------------------------------------- C11
\* C11 Manual URL: a run with --url U, whatever the other flags, in which the
\* archive was built calls no upload function, and when server.properties
\* exists update_server_properties is called on it; what it writes it writes
\* for U and the SHA-1 of the archive.
C11_ManualUrl ==
    (mpc = "done" /\ argv.url # <<>> /\ BuildCompleted) =>
        /\ ~UploadCalled
        /\ disk.exists => Called("update_server_properties")
        /\ \A n \in 1..Len(history) :
               history[n].url = argv.url /\ history[n].hash_str = sha1_hash

\* ------------------------------------------------------------------- C12
\* C12 as claimed: a run with --publish or --auto in which the build completed
\* and server.properties exists has called update_server_properties when main
\* finishes.
C12_PublishAlwaysUpdates ==
    (mpc = "done" /\ PublishRequested /\ BuildCompleted /\ disk.exists) =>
        Called("update_server_properties")

\* C12 as the code has it: a run with --publish or --auto in which the build
\* completed, main holds a non-empty url (from --url or returned by the
\* upload) and server.properties exists has called update_server_properties
\* when main finishes.
C12_PublishUpdatesWithUrl ==
    (MainFinished /\ PublishRequested /\ BuildCompleted /\ main_url # <<>>
        /\ disk.exists) =>
        Called("update_server_properties")

\* --publish alone, the upload returned a url, the file was patched with it
C12_Witness ==
    /\ mpc = "done"
    /\ argv.publish /\ ~argv.auto /\ ~argv.update_config /\ argv.url = <<>>
    /\ Called("upload_to_github_release")
    /\ main_url # <<>>
    /\ called = <<"upload_to_github_release", "update_server_properties">>
    /\ Len(history) = 1
    /\ history[1].url = main_url
    /\ disk = File(join(history[1].new_lines))

\* ------------------------------------------------------------------- C13
\* C13 Plugin config gating: update_plugin_config is called, and config.yml
\* differs from what it was, only in runs given --update-config or --auto.
C13_PluginConfigGating ==
    (Called("update_plugin_config") \/ plugin_cfg.state \notin {"absent", "original"})
        => (argv.update_config \/ argv.auto)

\* --publish alone with the saved auto_update_config set: server.properties
\* was updated, config.yml exists and was left alone
C13_Witness ==
    /\ mpc = "done"
    /\ argv.publish /\ ~argv.update_config /\ ~argv.auto
    /\ pack_config.auto_update_config
    /\ main_url # <<>>
    /\ Called("update_server_properties")
    /\ plugin_cfg = OriginalPluginConfig
    /\ ~Called("update_plugin_config")

\* ------------------------------------------------------------------- C14
\* the text of the line in front of its first '=', whitespace trimmed
BeforeFirstEq(line) == strip(SubSeq(line, 1, find(line, EQ) - 1))

\* the condition of the claim, spelled out
MatchesManagedKey(line) ==
    /\ strip(line) # <<>>
    /\ Head(strip(line)) # HASH
    /\ \E i \in 1..Len(line) : line[i] = EQ
    /\ BeforeFirstEq(line) \in ManagedKeys

\* C14 Exact key match: a line of the input is replaced by key=value and a
\* newline, the old remainder and whitespace gone, exactly when it is not
\* blank, not a comment, has an '=' and the trimmed text before its first '='
\* is a managed key; otherwise it is copied.  A resource-pack-sha1 line gets
\* the hash, never the url; a line whose key only contains resource-pack is
\* copied; a commented resource-pack line is copied and does not count as the
\* key, which is appended.
C14_ExactKeyMatch ==
    PatchDone =>
        /\ \A i \in 1..Len(lines) :
               IF MatchesManagedKey(lines[i])
               THEN new_lines[i] = BeforeFirstEq(lines[i]) \o <<EQ>>
                                     \o ManagedValue(BeforeFirstEq(lines[i])) \o <<NL>>
               ELSE new_lines[i] = lines[i]
        /\ \A i \in 1..Len(lines) :
               /\ is_prefix(KEY_RESOURCE_PACK_SHA1, lstrip(lines[i])) =>
                      /\ is_prefix(KEY_RESOURCE_PACK_SHA1 \o <<EQ>>, new_lines[i])
                      /\ LineValue(new_lines[i]) = hash_str
               /\ is_prefix(<<"require-">>, lines[i]) => new_lines[i] = lines[i]
               /\ is_prefix(<<HASH>>, lines[i]) => new_lines[i] = lines[i]
        /\ (\A i \in 1..Len(lines) : ~is_prefix(<<"resource-pack", EQ>>, lines[i])) =>
               /\ Len(new_lines) > Len(lines)
               /\ new_lines[Len(lines) + 1]
                      = KEY_RESOURCE_PACK \o <<EQ>> \o escaped_url \o <<NL>>

\* a sha1 line with whitespace and a second '=', a require-resource-pack line
\* and a commented resource-pack line in one document
C14_Witness ==
    /\ PatchDone
    /\ \E i \in 1..Len(lines) :
           /\ is_prefix(<<SP>> \o KEY_RESOURCE_PACK_SHA1 \o <<SP, EQ>>, lines[i])
           /\ Cardinality({j \in 1..Len(lines[i]) : lines[i][j] = EQ}) = 2
           /\ new_lines[i] = KEY_RESOURCE_PACK_SHA1 \o <<EQ>> \o hash_str \o <<NL>>
    /\ \E i \in 1..Len(lines) : is_prefix(<<"require-">>, lines[i])
    /\ \E i \in 1..Len(lines) : is_prefix(<<HASH, "resource-pack", EQ>>, lines[i])
    /\ IsManagedLine(new_lines[Len(lines) + 1])

\* ------------------------------------------------------------------- C15
\* C15 File-level line separation: after a call that returned True the lines
\* of the file are the lines written, each managed key and each original
\* unmanaged line a line of its own; and a call with the same url and hash on
\* the file the previous call wrote leaves the file as it was.
C15_FileLineSeparation ==
    (pc = "returned" /\ result = "True") =>
        /\ readlines(disk.data) = new_lines
        /\ \A key \in ManagedKeys : Count(readlines(disk.data), key) >= 1
        /\ (/\ Len(history) >= 1
            /\ history[Len(history)].url = url
            /\ history[Len(history)].hash_str = hash_str
            /\ orig = File(join(history[Len(history)].new_lines)))
               => disk = orig

\* ------------------------------------------------------------------- C16
\* the run has no url: none given, and no upload requested or the upload
\* returned None or ''
NoUrl ==
    /\ mpc \notin {"start", "build", "publish"}
    /\ argv.url = <<>>
    /\ ~PublishRequested \/ (UploadCalled /\ main_url = <<>>)

\* C16 No config write without a URL: in such a run neither
\* update_server_properties nor update_plugin_config is called and both files
\* are as they were, also with --update-config or --auto.
C16_NoConfigWriteWithoutUrl ==
    NoUrl =>
        /\ ~Called("update_server_properties")
        /\ ~Called("update_plugin_config")
        /\ pc = "idle"
        /\ disk = orig
        /\ plugin_cfg.state \in {"absent", "original"}

\* --auto, the upload returned nothing, both files exist
C16_Witness ==
    /\ mpc = "done"
    /\ argv.auto
    /\ argv.url = <<>>
    /\ called = <<"upload_to_github_release">>
    /\ main_url = <<>>
    /\ disk = File(TypicalDocument)
    /\ plugin_cfg = OriginalPluginConfig

====
